---- MODULE Spec2Model ----
(***************************************************************************)
(* Model of book_index.py: the PDF book index generator.                   *)
(*                                                                         *)
(* Strings are sequences of one-character strings, so that splitting,      *)
(* stripping, lower-casing, comparing and formatting are computed the way  *)
(* the Python code computes them.  Byte counts handed to human_size are    *)
(* big-endian sequences of base-1024 digits, so that counts up to and      *)
(* beyond 2^60 are representable.                                          *)
(***************************************************************************)
EXTENDS Integers, Sequences, FiniteSets, TLC

\* ------------------------------------------------------------------------
\* Bounds
\* ------------------------------------------------------------------------

\* Largest number of directory entries below the root.
MaxFiles == 5

\* Largest number of lines the pdfinfo process prints.
MaxLines == 2

\* Largest number of base-1024 digits of a byte count given to human_size.
MaxDigits == 7

\* ------------------------------------------------------------------------
\* Characters and Python string primitives
\* ------------------------------------------------------------------------

UpperChars == <<"A","B","C","D","E","F","G","H","I","J","K","L","M",
                "N","O","P","Q","R","S","T","U","V","W","X","Y","Z">>

LowerChars == <<"a","b","c","d","e","f","g","h","i","j","k","l","m",
                "n","o","p","q","r","s","t","u","v","w","x","y","z">>

DigitChars == <<"0","1","2","3","4","5","6","7","8","9">>

IndexIn(c, s) == IF \E i \in 1..Len(s) : s[i] = c
                 THEN CHOOSE i \in 1..Len(s) : s[i] = c
                 ELSE 0

\* Code point of a character (ASCII), the order Python compares strings by.
ord(c) ==
    IF IndexIn(c, UpperChars) > 0 THEN 64 + IndexIn(c, UpperChars)
    ELSE IF IndexIn(c, LowerChars) > 0 THEN 96 + IndexIn(c, LowerChars)
    ELSE IF IndexIn(c, DigitChars) > 0 THEN 47 + IndexIn(c, DigitChars)
    ELSE CASE c = " " -> 32
           [] c = "." -> 46
           [] c = "/" -> 47
           [] c = ":" -> 58
           [] OTHER   -> 0

\* str.lower() on one character.
lower_char(c) ==
    IF IndexIn(c, UpperChars) > 0 THEN LowerChars[IndexIn(c, UpperChars)] ELSE c

\* str.lower()
lower(s) == [i \in 1..Len(s) |-> lower_char(s[i])]

\* Python's s < t on strings: lexicographic by code point.
RECURSIVE str_lt(_, _)
str_lt(s, t) ==
    IF t = <<>> THEN FALSE
    ELSE IF s = <<>> THEN TRUE
    ELSE IF ord(Head(s)) < ord(Head(t)) THEN TRUE
    ELSE IF ord(Head(s)) > ord(Head(t)) THEN FALSE
    ELSE str_lt(Tail(s), Tail(t))

\* str.strip(): drop leading and trailing whitespace.
RECURSIVE lstrip(_)
lstrip(s) == IF s # <<>> /\ Head(s) = " " THEN lstrip(Tail(s)) ELSE s

RECURSIVE rstrip(_)
rstrip(s) == IF s # <<>> /\ s[Len(s)] = " "
             THEN rstrip(SubSeq(s, 1, Len(s) - 1))
             ELSE s

strip(s) == rstrip(lstrip(s))

\* Index of the first ":" of a line, 0 when there is none (":" in line).
find_colon(line) ==
    IF \E i \in 1..Len(line) : line[i] = ":"
    THEN CHOOSE i \in 1..Len(line) :
            line[i] = ":" /\ \A j \in 1..(i - 1) : line[j] # ":"
    ELSE 0

\* key, value = line.split(":", 1), each stripped.
split_key(line) == strip(SubSeq(line, 1, find_colon(line) - 1))

split_value(line) == strip(SubSeq(line, find_colon(line) + 1, Len(line)))

\* int(s) succeeds on a stripped string of this alphabet exactly when it is a
\* non-empty run of decimal digits; otherwise it raises ValueError.
int_ok(s) == s # <<>> /\ \A i \in 1..Len(s) : IndexIn(s[i], DigitChars) > 0

RECURSIVE int_value(_)
int_value(s) ==
    IF s = <<>> THEN 0
    ELSE 10 * int_value(SubSeq(s, 1, Len(s) - 1))
         + (IndexIn(s[Len(s)], DigitChars) - 1)

\* Decimal rendering of a non-negative integer.
RECURSIVE decimal(_)
decimal(n) ==
    IF n < 10 THEN <<DigitChars[n + 1]>>
    ELSE decimal(n \div 10) \o <<DigitChars[(n % 10) + 1]>>

\* Path.stem: the name without its last suffix (pathlib: the last dot counts
\* only when it is neither the first nor the last character).
RECURSIVE rfind_dot(_)
rfind_dot(name) ==
    IF name = <<>> THEN 0
    ELSE IF name[Len(name)] = "." THEN Len(name)
    ELSE rfind_dot(SubSeq(name, 1, Len(name) - 1))

stem(name) ==
    IF 1 < rfind_dot(name) /\ rfind_dot(name) < Len(name)
    THEN SubSeq(name, 1, rfind_dot(name) - 1)
    ELSE name

\* ------------------------------------------------------------------------
\* human_size (Size Formatter)
\* ------------------------------------------------------------------------

Units == <<<<"B">>, <<"K","B">>, <<"M","B">>, <<"G","B">>, <<"T","B">>>>

LastUnit == <<"P","B">>

\* Value of a big-endian sequence of base-1024 digits.
RECURSIVE digits_value(_)
digits_value(ds) ==
    IF ds = <<>> THEN 0
    ELSE 1024 * digits_value(SubSeq(ds, 1, Len(ds) - 1)) + ds[Len(ds)]

\* Big-endian base-1024 digits of a non-negative integer.
RECURSIVE to_digits(_)
to_digits(n) ==
    IF n < 1024 THEN <<n>> ELSE to_digits(n \div 1024) \o <<n % 1024>>

\* Trailing zero digits of a fraction do not change its value.
RECURSIVE drop_trailing_zeros(_)
drop_trailing_zeros(fs) ==
    IF fs # <<>> /\ fs[Len(fs)] = 0
    THEN drop_trailing_zeros(SubSeq(fs, 1, Len(fs) - 1))
    ELSE fs

RECURSIVE pow1024(_)
pow1024(k) == IF k = 0 THEN 1 ELSE 1024 * pow1024(k - 1)

\* a / b rounded to the nearest integer, ties to even: the rounding that
\* the format specification ".2f" applies to the exact value of a float.
round_half_even(a, b) ==
    LET q == a \div b
        r == a % b
    IN  IF 2 * r < b THEN q
        ELSE IF 2 * r > b THEN q + 1
        ELSE IF q % 2 = 0 THEN q ELSE q + 1

\* Hundredths of the fraction 0.frac (base-1024 digits), 0..100.
frac_hundredths(frac) ==
    LET fs == drop_trailing_zeros(frac)
    IN  round_half_even(100 * digits_value(fs), pow1024(Len(fs)))

\* f"{num_bytes:.2f} {unit}": a fraction that rounds to 100 hundredths
\* carries into the integer part.
format_size(whole, frac, unit) ==
    LET c == frac_hundredths(frac)
        w == digits_value(whole) + (IF c = 100 THEN 1 ELSE 0)
        cc == IF c = 100 THEN 0 ELSE c
    IN  decimal(w) \o <<".">>
        \o <<DigitChars[(cc \div 10) + 1], DigitChars[(cc % 10) + 1]>>
        \o <<" ">> \o unit

\* human_size with "num_bytes <= 1024" for "num_bytes < 1024".
RECURSIVE human_size_loop_le(_, _, _)
human_size_loop_le(whole, frac, i) ==
    IF i > Len(Units) THEN format_size(whole, frac, LastUnit)
    ELSE IF Len(whole) <= 1
            \/ (whole = <<1, 0>> /\ drop_trailing_zeros(frac) = <<>>)
         THEN format_size(whole, frac, Units[i])
    ELSE human_size_loop_le(SubSeq(whole, 1, Len(whole) - 1),
                            <<whole[Len(whole)]>> \o frac, i + 1)

\* The for loop of human_size from unit number i on; the running value is
\* whole.frac.  "num_bytes < 1024" holds exactly when whole is one digit;
\* "num_bytes /= 1024" moves the last digit of whole to the front of frac.
RECURSIVE human_size_loop(_, _, _)
human_size_loop(whole, frac, i) ==
    IF i > Len(Units) THEN format_size(whole, frac, LastUnit)
    ELSE IF Len(whole) <= 1 THEN format_size(whole, frac, Units[i])
    ELSE human_size_loop(SubSeq(whole, 1, Len(whole) - 1),
                         <<whole[Len(whole)]>> \o frac, i + 1)

human_size(digits) == human_size_loop(digits, <<>>, 1)

\* ------------------------------------------------------------------------
\* extract_pdf_metadata (Metadata Extractor)
\* ------------------------------------------------------------------------

KeyTitle == <<"T","i","t","l","e">>

KeyAuthor == <<"A","u","t","h","o","r">>

KeyPages == <<"P","a","g","e","s">>

Unknown == <<"U","n","k","n","o","w","n">>

\* The meta dict after the for loop over result.stdout.splitlines(): a
\* function from keys to values; a later line overwrites an earlier one.
RECURSIVE parse_lines(_, _)
parse_lines(lines, meta) ==
    IF lines = <<>> THEN meta
    ELSE LET line == Head(lines)
             next == IF find_colon(line) > 0
                     THEN [k \in DOMAIN meta \cup {split_key(line)} |->
                             IF k = split_key(line) THEN split_value(line)
                             ELSE meta[k]]
                     ELSE meta
         IN  parse_lines(Tail(lines), next)

EmptyMeta == [k \in {} |-> <<>>]

\* meta.get(key, default)
meta_get(meta, key, default) == IF key \in DOMAIN meta THEN meta[key] ELSE default

\* The try block with only the conversion of "Pages" guarded: a malformed
\* value gives pages 0 and leaves title and author as parsed.
try_extract_lenient(name, proc) ==
    IF ~proc.launched THEN [raised |-> "OSError"]
    ELSE IF ~proc.decodable THEN [raised |-> "UnicodeDecodeError"]
    ELSE LET meta == parse_lines(proc.stdout, EmptyMeta)
         IN  [title  |-> meta_get(meta, KeyTitle, stem(name)),
              author |-> meta_get(meta, KeyAuthor, Unknown),
              pages  |-> IF KeyPages \in DOMAIN meta /\ int_ok(meta[KeyPages])
                         THEN int_value(meta[KeyPages]) ELSE 0]

\* The body of the try block.  proc is what subprocess.run meets: whether the
\* process could be launched, whether its output decodes as text, its exit
\* status (never looked at, check=False) and its standard output as lines.
\* The result is either the returned dict or the exception raised.
try_extract(name, proc) ==
    IF ~proc.launched THEN [raised |-> "OSError"]
    ELSE IF ~proc.decodable THEN [raised |-> "UnicodeDecodeError"]
    ELSE LET meta == parse_lines(proc.stdout, EmptyMeta)
         IN  IF KeyPages \in DOMAIN meta /\ ~int_ok(meta[KeyPages])
             THEN [raised |-> "ValueError"]
             ELSE [title  |-> meta_get(meta, KeyTitle, stem(name)),
                   author |-> meta_get(meta, KeyAuthor, Unknown),
                   pages  |-> IF KeyPages \in DOMAIN meta
                              THEN int_value(meta[KeyPages]) ELSE 0]

\* The except branch: the fallback dict.
fallback_metadata(name) ==
    [title |-> stem(name), author |-> Unknown, pages |-> 0]

extract_pdf_metadata(name, proc) ==
    LET r == try_extract(name, proc)
    IN  IF "raised" \in DOMAIN r THEN fallback_metadata(name) ELSE r

\* ------------------------------------------------------------------------
\* sha256_file (Hasher)
\* ------------------------------------------------------------------------

CHUNK_SIZE == 1048576

\* hashlib.sha256(data).hexdigest() for the byte strings of the modelled
\* files: "", "%PDF", "%PDF-1", "AB".
sha256_hexdigest(data) ==
    CASE data = <<>> ->
           <<"e","3","b","0","c","4","4","2","9","8","f","c","1","c","1","4",
             "9","a","f","b","f","4","c","8","9","9","6","f","b","9","2","4",
             "2","7","a","e","4","1","e","4","6","4","9","b","9","3","4","c",
             "a","4","9","5","9","9","1","b","7","8","5","2","b","8","5","5">>
      [] data = <<37,80,68,70>> ->
           <<"3","1","5","d","4","2","9","b","7","7","1","4","c","e","d","b",
             "6","a","d","0","4","a","c","3","1","2","4","0","1","4","5","2",
             "5","7","6","9","2","6","3","0","4","5","7","f","3","c","8","8",
             "2","5","3","c","5","b","e","c","e","a","c","7","6","0","2","7">>
      [] data = <<37,80,68,70,45,49>> ->
           <<"2","1","a","f","8","e","7","1","c","8","7","0","3","1","9","6",
             "d","f","7","f","e","1","f","f","9","0","1","8","6","9","a","8",
             "8","f","e","6","4","c","0","7","b","b","a","a","8","3","d","8",
             "3","8","e","f","b","4","5","a","5","2","b","4","f","3","0","3">>
      [] data = <<65,66>> ->
           <<"3","8","1","6","4","f","b","d","1","7","6","0","3","d","7","3",
             "f","6","9","6","b","8","b","4","d","7","2","6","6","4","d","7",
             "3","5","b","b","6","a","7","c","8","8","5","7","7","6","8","7",
             "f","d","2","a","e","3","3","f","d","6","9","6","4","1","5","3">>

Min(a, b) == IF a < b THEN a ELSE b

\* The read loop: every non-empty chunk of at most CHUNK_SIZE bytes is fed to
\* the hasher (fed is what it has been given so far); an empty chunk ends it.
RECURSIVE read_loop(_, _)
read_loop(rest, fed) ==
    LET chunk == SubSeq(rest, 1, Min(CHUNK_SIZE, Len(rest)))
    IN  IF chunk = <<>> THEN fed
        ELSE read_loop(SubSeq(rest, Len(chunk) + 1, Len(rest)), fed \o chunk)

sha256_file(content) == sha256_hexdigest(read_loop(content, <<>>))

\* ------------------------------------------------------------------------
\* compute_stats (Statistics Aggregator)
\* ------------------------------------------------------------------------

NotAvailable == <<"N","/","A">>

\* sum(r[field] for r in records)
RECURSIVE sum_field(_, _)
sum_field(records, field) ==
    IF records = <<>> THEN 0
    ELSE Head(records)[field] + sum_field(Tail(records), field)

\* The page list without the filter on unknown page counts.
RECURSIVE all_pages(_)
all_pages(records) ==
    IF records = <<>> THEN <<>>
    ELSE <<Head(records).pages>> \o all_pages(Tail(records))

\* [r["pages"] for r in records if r["pages"] > 0]
RECURSIVE positive_pages(_)
positive_pages(records) ==
    IF records = <<>> THEN <<>>
    ELSE IF Head(records).pages > 0
         THEN <<Head(records).pages>> \o positive_pages(Tail(records))
         ELSE positive_pages(Tail(records))

RECURSIVE sum_list(_)
sum_list(xs) == IF xs = <<>> THEN 0 ELSE Head(xs) + sum_list(Tail(xs))

RECURSIVE gcd(_, _)
gcd(a, b) == IF b = 0 THEN a ELSE gcd(b, a % b)

\* An exact number as a fraction in lowest terms.
fraction(n, d) == [num |-> n \div gcd(n, d), den |-> d \div gcd(n, d)]

\* statistics.mean of a non-empty list of integers: the exact quotient.
mean(xs) == fraction(sum_list(xs), Len(xs))

\* max with the comparison turned round.
RECURSIVE max_by_size_reversed(_, _)
max_by_size_reversed(records, best) ==
    IF records = <<>> THEN best
    ELSE max_by_size_reversed(Tail(records),
                              IF Head(records).size_bytes < best.size_bytes
                              THEN Head(records) ELSE best)

\* max(records, key=size_bytes): the first record of maximal key.
RECURSIVE max_by_size(_, _)
max_by_size(records, best) ==
    IF records = <<>> THEN best
    ELSE max_by_size(Tail(records),
                     IF Head(records).size_bytes > best.size_bytes
                     THEN Head(records) ELSE best)

\* min(records, key=size_bytes): the first record of minimal key.
RECURSIVE min_by_size(_, _)
min_by_size(records, best) ==
    IF records = <<>> THEN best
    ELSE min_by_size(Tail(records),
                     IF Head(records).size_bytes < best.size_bytes
                     THEN Head(records) ELSE best)

\* "count" taken from the records with a known page count.
stats_count_known(records) == Len(positive_pages(records))

\* "count": len(records)
stats_count(records) == Len(records)

\* "avg_pages": statistics.mean(pages_list) if pages_list else 0
stats_avg_pages(records) ==
    IF positive_pages(records) # <<>> THEN mean(positive_pages(records))
    ELSE fraction(0, 1)

\* "largest_file"
stats_largest_file(records) ==
    IF records # <<>> THEN max_by_size(Tail(records), Head(records)).filename
    ELSE NotAvailable

\* "smallest_file"
stats_smallest_file(records) ==
    IF records # <<>> THEN min_by_size(Tail(records), Head(records)).filename
    ELSE NotAvailable

compute_stats(records) ==
    [count            |-> stats_count(records),
     total_pages      |-> sum_field(records, "pages"),
     total_size_bytes |-> sum_field(records, "size_bytes"),
     total_size_human |-> human_size(to_digits(sum_field(records, "size_bytes"))),
     avg_pages        |-> stats_avg_pages(records),
     largest_file     |-> stats_largest_file(records),
     smallest_file    |-> stats_smallest_file(records)]

\* ------------------------------------------------------------------------
\* generate_markdown (text report)
\* ------------------------------------------------------------------------

\* The insertion with the titles compared as they are, without lower().
RECURSIVE insert_by_title_cased(_, _)
insert_by_title_cased(r, sorted) ==
    IF sorted = <<>> THEN <<r>>
    ELSE IF str_lt(r.title, Head(sorted).title)
         THEN <<r>> \o sorted
         ELSE <<Head(sorted)>> \o insert_by_title_cased(r, Tail(sorted))

\* Insert r into a list sorted by title.lower(), after every element whose
\* key is not greater (sorted() is stable and compares keys with <).
RECURSIVE insert_by_title(_, _)
insert_by_title(r, sorted) ==
    IF sorted = <<>> THEN <<r>>
    ELSE IF str_lt(lower(r.title), lower(Head(sorted).title))
         THEN <<r>> \o sorted
         ELSE <<Head(sorted)>> \o insert_by_title(r, Tail(sorted))

\* sorted(records, key=lambda x: x["title"].lower()): a new list.
RECURSIVE sorted_by_title(_)
sorted_by_title(records) ==
    IF records = <<>> THEN <<>>
    ELSE insert_by_title(records[Len(records)],
                         sorted_by_title(SubSeq(records, 1, Len(records) - 1)))

\* One table row: title, author, pages, size and the first 12 characters of
\* the digest followed by "...".
table_row(r) ==
    [title  |-> r.title,
     author |-> r.author,
     pages  |-> r.pages,
     size   |-> r.size_human,
     sha256 |-> SubSeq(r.sha256, 1, Min(12, Len(r.sha256))) \o <<".",".",".">>]

\* f"{avg_pages:.2f}"
format_avg(avg) ==
    LET h == round_half_even(100 * avg.num, avg.den)
    IN  decimal(h \div 100) \o <<".">>
        \o <<DigitChars[((h % 100) \div 10) + 1], DigitChars[(h % 10) + 1]>>

\* The text written to the report: the timestamp, the summary bullets and
\* the table rows in the order they are written.
markdown_text(records, stats, now) ==
    [generated |-> now,
     summary   |-> [total_books   |-> stats.count,
                    total_pages   |-> stats.total_pages,
                    total_size    |-> stats.total_size_human,
                    avg_pages     |-> format_avg(stats.avg_pages),
                    largest_file  |-> stats.largest_file,
                    smallest_file |-> stats.smallest_file],
     rows      |-> [i \in 1..Len(records) |->
                       table_row(sorted_by_title(records)[i])]]

\* The object handed to json.dump.
json_object(records, stats, now) ==
    [generated |-> now, stats |-> stats, books |-> records]

\* ------------------------------------------------------------------------
\* The file system and the environment
\* ------------------------------------------------------------------------

\* The files a directory tree is populated from.  dir is the path below the
\* root, content the bytes of the file; decodable, exit and stdout are what
\* pdfinfo does when it is run on the file.
FileZebra ==
    [dir |-> <<>>, name |-> <<"z","e","b","r","a",".","p","d","f">>,
     content |-> <<37,80,68,70,45,49>>, decodable |-> TRUE, exit |-> 0,
     stdout |-> << <<"T","i","t","l","e",":"," ","Z","e","b","r","a">>,
                   <<"A","u","t","h","o","r",":"," ","A","n","n">>,
                   <<"P","a","g","e","s",":"," ","1","0","0">> >>]

FileApple ==
    [dir |-> <<"o","l","d","/">>, name |-> <<"a","p","p","l","e",".","p","d","f">>,
     content |-> <<37,80,68,70>>, decodable |-> TRUE, exit |-> 0,
     stdout |-> << <<"T","i","t","l","e",":"," ","a","p","p","l","e">>,
                   <<"P","a","g","e","s",":"," ","3","0","0">> >>]

FileMango ==
    [dir |-> <<>>, name |-> <<"m","a","n","g","o",".","p","d","f">>,
     content |-> <<37,80,68,70>>, decodable |-> TRUE, exit |-> 1,
     stdout |-> << <<"T","i","t","l","e",":"," ","M","a","n","g","o">> >>]

FileDraft ==
    [dir |-> <<>>, name |-> <<"d","r","a","f","t",".","p","d","f">>,
     content |-> <<>>, decodable |-> TRUE, exit |-> 0,
     stdout |-> << <<"T","i","t","l","e",":"," ","A","p","p","l","e">>,
                   <<"P","a","g","e","s",":"," ","a","b","c">> >>]

FileNotes ==
    [dir |-> <<>>, name |-> <<"n","o","t","e","s",".","t","x","t">>,
     content |-> <<65,66>>, decodable |-> TRUE, exit |-> 1, stdout |-> <<>>]

FileBackup ==
    [dir |-> <<"o","l","d","/">>, name |-> <<"a",".","p","d","f",".","b","a","k">>,
     content |-> <<65,66>>, decodable |-> TRUE, exit |-> 1, stdout |-> <<>>]

Files == {FileZebra, FileApple, FileMango, FileDraft, FileNotes, FileBackup}

\* The directory trees: up to MaxFiles distinct files, in traversal order.
Trees ==
    UNION {{t \in [1..n -> Files] : \A i, j \in 1..n : i # j => t[i] # t[j]}
           : n \in 0..MaxFiles}

RootPath == <<"/","l","i","b","/">>

MarkdownPath == "README.md"

JsonPath == "books_index.json"

\* A match of ".pdf" anywhere in the name, as for the pattern "*.pdf*".
matches_pdf_anywhere(name) ==
    \E i \in 1..(Len(name) - 3) : SubSeq(name, i, i + 3) = <<".","p","d","f">>

\* fnmatch of a file name against "*.pdf"
matches_pdf(name) ==
    Len(name) >= 4 /\ SubSeq(name, Len(name) - 3, Len(name)) = <<".","p","d","f">>

\* list(directory.rglob("*.pdf"))
RECURSIVE rglob_pdf(_)
rglob_pdf(tree) ==
    IF tree = <<>> THEN <<>>
    ELSE IF matches_pdf(Head(tree).name)
         THEN <<Head(tree)>> \o rglob_pdf(Tail(tree))
         ELSE rglob_pdf(Tail(tree))

\* str(pdf.resolve())
resolve(file) == RootPath \o file.dir \o file.name

\* what subprocess.run(["pdfinfo", path]) meets for a file
pdfinfo_run(file, installed) ==
    [launched |-> installed, decodable |-> file.decodable,
     exit |-> file.exit, stdout |-> file.stdout]

\* ------------------------------------------------------------------------
\* State
\* ------------------------------------------------------------------------

VARIABLES
    pc,            \* position of the main program
    rootValid,     \* target_dir.is_dir()
    tree,          \* the files below the root, in traversal order
    installed,     \* whether the pdfinfo executable can be launched
    pdf_files,     \* build_index: the list of matches
    idx,           \* build_index: position of the for loop in pdf_files
    size_bytes,    \* build_index: local of the current iteration
    metadata,      \* build_index: local of the current iteration
    path,          \* build_index: resolved path of the current iteration
    records,       \* the record list
    stats,         \* <<>> before compute_stats ran, then <<its result>>
    markdown,      \* the text report: <<>> while not written, then <<its content>>
    json,          \* the export: <<>> while not written, then <<its content>>
    stdout,        \* lines printed
    exitStatus,    \* -1 while running, then the exit status of the process
    abortCause,    \* the step whose exception ended the run, "none" otherwise
    calls,         \* the calls made to the outside, in order
    clock,         \* number of datetime.now() readings so far
    sizeArg,       \* human_size: the argument, base-1024 digits
    sizeRet,       \* human_size: <<>> before the call, then <<result>>
    metaArg,       \* extract_pdf_metadata: [name, proc]
    metaRet        \* extract_pdf_metadata: <<>> before the call, then <<result>>

mainVars == <<pc, rootValid, tree, installed, pdf_files, idx, size_bytes,
              metadata, path, records, stats, markdown, json, stdout,
              exitStatus, abortCause, calls, clock>>

sizeVars == <<sizeArg, sizeRet>>

metaVars == <<metaArg, metaRet>>

vars == <<mainVars, sizeVars, metaVars>>

NoMetadata == [title |-> <<>>, author |-> <<>>, pages |-> 0]

\* The main program before its first statement.
MainStart ==
    /\ pc = "start"
    /\ pdf_files = <<>>
    /\ idx = 0
    /\ size_bytes = 0
    /\ metadata = NoMetadata
    /\ path = <<>>
    /\ records = <<>>
    /\ stats = <<>>
    /\ markdown = <<>>
    /\ json = <<>>
    /\ stdout = <<>>
    /\ exitStatus = -1
    /\ abortCause = "none"
    /\ calls = <<>>
    /\ clock = 0

SizeIdle == sizeArg = <<0>> /\ sizeRet = <<>>

MetaIdle ==
    /\ metaArg = [name |-> <<>>, proc |-> pdfinfo_run(FileNotes, FALSE)]
    /\ metaRet = <<>>

Init ==
    /\ MainStart
    /\ rootValid \in BOOLEAN
    /\ tree \in Trees
    /\ rootValid = FALSE => tree = <<>>
    /\ installed \in BOOLEAN
    /\ SizeIdle
    /\ MetaIdle

\* ------------------------------------------------------------------------
\* The main program
\* ------------------------------------------------------------------------

call(op, arg) == [op |-> op, arg |-> arg]

\* An exception nobody catches: the interpreter prints a traceback and the
\* process ends with status 1.
Abort(cause) ==
    /\ pc' = "done"
    /\ exitStatus' = 1
    /\ abortCause' = cause

\* The directory check without its exit(1): the message is printed and the
\* run goes on.
CheckDirectoryNoExit ==
    /\ pc = "start"
    /\ calls' = Append(calls, call("is_dir", RootPath))
    /\ pc' = "rglob"
    /\ stdout' = IF rootValid THEN stdout
                 ELSE Append(stdout, <<"Invalid directory.">>)
    /\ UNCHANGED <<rootValid, tree, installed, pdf_files, idx, size_bytes,
                   metadata, path, records, stats, markdown, json,
                   exitStatus, abortCause, clock, sizeVars, metaVars>>

\* if not target_dir.is_dir(): print("Invalid directory."); exit(1)
CheckDirectory ==
    /\ pc = "start"
    /\ calls' = Append(calls, call("is_dir", RootPath))
    /\ IF rootValid
       THEN /\ pc' = "rglob"
            /\ UNCHANGED <<stdout, exitStatus>>
       ELSE /\ pc' = "done"
            /\ stdout' = Append(stdout, <<"Invalid directory.">>)
            /\ exitStatus' = 1
    /\ UNCHANGED <<rootValid, tree, installed, pdf_files, idx, size_bytes,
                   metadata, path, records, stats, markdown, json,
                   abortCause, clock, sizeVars, metaVars>>

\* build_index: pdf_files = list(directory.rglob("*.pdf")); records = []
Discover ==
    /\ pc = "rglob"
    /\ pdf_files' = rglob_pdf(tree)
    /\ records' = <<>>
    /\ idx' = 1
    /\ calls' = Append(calls, call("rglob", RootPath))
    /\ pc' = IF rglob_pdf(tree) = <<>> THEN "stats" ELSE "stat"
    /\ UNCHANGED <<rootValid, tree, installed, size_bytes, metadata, path,
                   stats, markdown, json, stdout, exitStatus, abortCause,
                   clock, sizeVars, metaVars>>

\* size_bytes = pdf.stat().st_size; stat raises OSError when the file has
\* vanished or cannot be examined, and nothing catches it.
StatFile ==
    /\ pc = "stat"
    /\ calls' = Append(calls, call("stat", resolve(pdf_files[idx])))
    /\ \E ok \in BOOLEAN :
          IF ok
          THEN /\ size_bytes' = Len(pdf_files[idx].content)
               /\ pc' = "metadata"
               /\ UNCHANGED <<exitStatus, abortCause>>
          ELSE /\ Abort("stat")
               /\ UNCHANGED size_bytes
    /\ UNCHANGED <<rootValid, tree, installed, pdf_files, idx, metadata, path,
                   records, stats, markdown, json, stdout, clock,
                   sizeVars, metaVars>>

\* extract_pdf_metadata without its except clause.
call_extract_unguarded(file, inst) == try_extract(file.name, pdfinfo_run(file, inst))

\* The call of extract_pdf_metadata as build_index sees it: the value
\* returned, or the exception that leaves it.
call_extract(file, inst) == extract_pdf_metadata(file.name, pdfinfo_run(file, inst))

\* metadata = extract_pdf_metadata(pdf)
ExtractMetadata ==
    /\ pc = "metadata"
    /\ calls' = Append(calls, call("pdfinfo", resolve(pdf_files[idx])))
    /\ LET r == call_extract(pdf_files[idx], installed)
       IN  IF "raised" \in DOMAIN r
           THEN /\ Abort("metadata")
                /\ UNCHANGED metadata
           ELSE /\ metadata' = r
                /\ pc' = "resolve"
                /\ UNCHANGED <<exitStatus, abortCause>>
    /\ UNCHANGED <<rootValid, tree, installed, pdf_files, idx, size_bytes,
                   path, records, stats, markdown, json, stdout, clock,
                   sizeVars, metaVars>>

\* "path": str(pdf.resolve()); resolve raises (OSError, or RuntimeError on a
\* symlink loop) when the tree changed under it, and nothing catches it.
ResolvePath ==
    /\ pc = "resolve"
    /\ calls' = Append(calls, call("resolve", resolve(pdf_files[idx])))
    /\ \E ok \in BOOLEAN :
          IF ok
          THEN /\ path' = resolve(pdf_files[idx])
               /\ pc' = "hash"
               /\ UNCHANGED <<exitStatus, abortCause>>
          ELSE /\ Abort("resolve")
               /\ UNCHANGED path
    /\ UNCHANGED <<rootValid, tree, installed, pdf_files, idx, size_bytes,
                   metadata, records, stats, markdown, json, stdout, clock,
                   sizeVars, metaVars>>

\* The record dict of one file.
make_record(file, size, meta, resolved, digest) ==
    [filename   |-> file.name,
     path       |-> resolved,
     size_bytes |-> size,
     size_human |-> human_size(to_digits(size)),
     pages      |-> meta.pages,
     title      |-> meta.title,
     author     |-> meta.author,
     sha256     |-> digest]

\* "sha256": sha256_file(pdf); records.append(record); next iteration or
\* return.  open or read raises OSError when the file cannot be read, and
\* nothing catches it.
HashAndAppend ==
    /\ pc = "hash"
    /\ calls' = Append(calls, call("hash", resolve(pdf_files[idx])))
    /\ \E ok \in BOOLEAN :
          IF ok
          THEN /\ records' = Append(records,
                       make_record(pdf_files[idx], size_bytes, metadata, path,
                                   sha256_file(pdf_files[idx].content)))
               /\ idx' = idx + 1
               /\ pc' = IF idx < Len(pdf_files) THEN "stat" ELSE "stats"
               /\ UNCHANGED <<exitStatus, abortCause>>
          ELSE /\ Abort("hash")
               /\ UNCHANGED <<records, idx>>
    /\ UNCHANGED <<rootValid, tree, installed, pdf_files, size_bytes,
                   metadata, path, stats, markdown, json, stdout, clock,
                   sizeVars, metaVars>>

\* stats = compute_stats(records)
ComputeStats ==
    /\ pc = "stats"
    /\ stats' = <<compute_stats(records)>>
    /\ pc' = "markdown"
    /\ UNCHANGED <<rootValid, tree, installed, pdf_files, idx, size_bytes,
                   metadata, path, records, markdown, json, stdout,
                   exitStatus, abortCause, calls, clock, sizeVars, metaVars>>

\* generate_markdown sorting the caller's list in place (records.sort)
\* instead of iterating over a sorted copy.
WriteMarkdownInPlace ==
    /\ pc = "markdown"
    /\ calls' = Append(calls, call("open_w", MarkdownPath))
    /\ \E ok \in BOOLEAN :
          IF ok
          THEN /\ markdown' = <<markdown_text(records, stats[1], clock)>>
               /\ records' = sorted_by_title(records)
               /\ clock' = clock + 1
               /\ pc' = "json"
               /\ UNCHANGED <<exitStatus, abortCause>>
          ELSE /\ Abort("markdown")
               /\ UNCHANGED <<markdown, clock, records>>
    /\ UNCHANGED <<rootValid, tree, installed, pdf_files, idx, size_bytes,
                   metadata, path, stats, json, stdout, sizeVars, metaVars>>

\* generate_markdown(records, stats, Path(args.markdown)); opening the
\* output for writing raises OSError when the location is not writable.
WriteMarkdown ==
    /\ pc = "markdown"
    /\ calls' = Append(calls, call("open_w", MarkdownPath))
    /\ \E ok \in BOOLEAN :
          IF ok
          THEN /\ markdown' = <<markdown_text(records, stats[1], clock)>>
               /\ clock' = clock + 1
               /\ pc' = "json"
               /\ UNCHANGED <<exitStatus, abortCause>>
          ELSE /\ Abort("markdown")
               /\ UNCHANGED <<markdown, clock>>
    /\ UNCHANGED <<rootValid, tree, installed, pdf_files, idx, size_bytes,
                   metadata, path, records, stats, json, stdout,
                   sizeVars, metaVars>>

\* with open(args.json, "w") as jf: json.dump({...}, jf, indent=4)
WriteJson ==
    /\ pc = "json"
    /\ calls' = Append(calls, call("open_w", JsonPath))
    /\ \E ok \in BOOLEAN :
          IF ok
          THEN /\ json' = <<json_object(records, stats[1], clock)>>
               /\ clock' = clock + 1
               /\ pc' = "print"
               /\ UNCHANGED <<exitStatus, abortCause>>
          ELSE /\ Abort("json")
               /\ UNCHANGED <<json, clock>>
    /\ UNCHANGED <<rootValid, tree, installed, pdf_files, idx, size_bytes,
                   metadata, path, records, stats, markdown, stdout,
                   sizeVars, metaVars>>

\* The three print statements.
PrintSummary ==
    /\ pc = "print"
    /\ stdout' = stdout \o << <<"Indexed", stats[1].count, "books.">>,
                              <<"Markdown written to", MarkdownPath>>,
                              <<"JSON written to", JsonPath>> >>
    /\ pc' = "end"
    /\ UNCHANGED <<rootValid, tree, installed, pdf_files, idx, size_bytes,
                   metadata, path, records, stats, markdown, json,
                   exitStatus, abortCause, calls, clock, sizeVars, metaVars>>

\* The end of the script: the interpreter exits with status 0.
Exit ==
    /\ pc = "end"
    /\ pc' = "done"
    /\ exitStatus' = 0
    /\ UNCHANGED <<rootValid, tree, installed, pdf_files, idx, size_bytes,
                   metadata, path, records, stats, markdown, json, stdout,
                   abortCause, calls, clock, sizeVars, metaVars>>

Next ==
    \/ CheckDirectory
    \/ Discover
    \/ StatFile
    \/ ExtractMetadata
    \/ ResolvePath
    \/ HashAndAppend
    \/ ComputeStats
    \/ WriteMarkdown
    \/ WriteJson
    \/ PrintSummary
    \/ Exit

Spec == Init /\ [][Next]_vars

\* ------------------------------------------------------------------------
\* human_size on its own
\* ------------------------------------------------------------------------

\* Digits the arguments are built from: the extremes, a fraction that rounds
\* up to the next integer (1019/1024, 1023/1024) and exact ties
\* (128/1024 = 0.125, 384/1024 = 0.375).
DigitSample == {0, 1, 128, 384, 1019, 1023}

\* Byte counts of up to MaxDigits digits whose non-zero digits are the
\* leading three: such a count and every quotient of it by a power of 1024
\* is an exact float, so the code's float arithmetic is exact on them.
SizeInputs ==
    {<<0>>} \cup
    UNION {{ds \in [1..n -> DigitSample] :
               ds[1] # 0 /\ \A i \in 1..n : i > 3 => ds[i] = 0}
           : n \in 1..MaxDigits}

InitSize ==
    /\ MainStart
    /\ rootValid = FALSE
    /\ tree = <<>>
    /\ installed = FALSE
    /\ sizeArg \in SizeInputs
    /\ sizeRet = <<>>
    /\ MetaIdle

CallHumanSize ==
    /\ sizeRet = <<>>
    /\ sizeRet' = <<human_size(sizeArg)>>
    /\ UNCHANGED <<sizeArg, mainVars, metaVars>>

NextSize == CallHumanSize

SpecSize == InitSize /\ [][NextSize]_vars

\* ------------------------------------------------------------------------
\* extract_pdf_metadata on its own
\* ------------------------------------------------------------------------

\* Lines pdfinfo may print.
LineSample ==
    { <<"T","i","t","l","e",":"," ","Z","e","b","r","a">>,
      <<"T","i","t","l","e",":"," ","a",":","b">>,
      <<"T","i","t","l","e",":">>,
      <<"A","u","t","h","o","r",":"," ","A","n","n">>,
      <<"P","a","g","e","s",":"," ","7">>,
      <<" ","P","a","g","e","s"," ",":"," ","1","2"," ">>,
      <<"P","a","g","e","s",":"," ","a","b","c">>,
      <<"P","a","g","e","s",":"," ","1",".","5">>,
      <<"P","a","g","e","s",":">>,
      <<"n","o"," ","c","o","l","o","n"," ","h","e","r","e">> }

Outputs == UNION {[1..n -> LineSample] : n \in 0..MaxLines}

NameSample == { <<"z","e","b","r","a",".","p","d","f">>,
                <<"a",".","b",".","p","d","f">>,
                <<".","p","d","f">> }

MetaInputs ==
    [name : NameSample,
     proc : [launched : BOOLEAN, decodable : BOOLEAN, exit : {0, 1},
             stdout : Outputs]]

InitMeta ==
    /\ MainStart
    /\ rootValid = FALSE
    /\ tree = <<>>
    /\ installed = FALSE
    /\ SizeIdle
    /\ metaArg \in MetaInputs
    /\ metaRet = <<>>

CallExtractMetadata ==
    /\ metaRet = <<>>
    /\ metaRet' = <<extract_pdf_metadata(metaArg.name, metaArg.proc)>>
    /\ UNCHANGED <<metaArg, mainVars, sizeVars>>

NextMeta == CallExtractMetadata

SpecMeta == InitMeta /\ [][NextMeta]_vars

\* ------------------------------------------------------------------------
\* Properties
\* ------------------------------------------------------------------------

Fallback(name) == [title |-> stem(name), author |-> Unknown, pages |-> 0]

IsKeyLine(line, key) == find_colon(line) > 0 /\ split_key(line) = key

\* The last "Pages" line of the output carries something that is not an
\* integer.
PagesMalformed(lines) ==
    \E i \in 1..Len(lines) :
       /\ IsKeyLine(lines[i], KeyPages)
       /\ \A j \in (i + 1)..Len(lines) : ~IsKeyLine(lines[j], KeyPages)
       /\ ~int_ok(split_value(lines[i]))

\* A step of the extraction fails.
ExtractionFails(proc) ==
    \/ ~proc.launched
    \/ ~proc.decodable
    \/ PagesMalformed(proc.stdout)

\* C1: extract_pdf_metadata always returns a (title, author, pages) result,
\* whatever the external process does; whenever a step fails (launch,
\* decoding, or a "Pages" value that is not an integer, also next to a valid
\* "Title" and "Author") and whenever the output is empty, the result is
\* exactly the fallback triple (path stem, "Unknown", 0).
C1_MetadataTotal ==
    metaRet # <<>> =>
       /\ DOMAIN metaRet[1] = {"title", "author", "pages"}
       /\ metaRet[1].pages \in Nat
       /\ ExtractionFails(metaArg.proc) => metaRet[1] = Fallback(metaArg.name)
       /\ metaArg.proc.stdout = <<>> => metaRet[1] = Fallback(metaArg.name)

C1_Witness ==
    /\ metaRet # <<>>
    /\ metaArg.name = <<"z","e","b","r","a",".","p","d","f">>
    /\ metaArg.proc.launched /\ metaArg.proc.decodable
    /\ metaArg.proc.stdout =
          << <<"T","i","t","l","e",":"," ","Z","e","b","r","a">>,
             <<"P","a","g","e","s",":"," ","a","b","c">> >>
    /\ metaRet[1] = [title |-> <<"z","e","b","r","a">>, author |-> Unknown,
                     pages |-> 0]

PerFileSteps == {"stat", "metadata", "resolve", "hash"}

MetadataFailsFor(file) == ExtractionFails(pdfinfo_run(file, installed))

\* C2 as stated: of the per-file steps only hashing can abort the run.
C2_OnlyHashAborts ==
    abortCause \in PerFileSteps => abortCause = "hash"

\* C2, amended: a failure while extracting a file's metadata never aborts
\* the run (the file gets the fallback metadata and processing goes on);
\* an error while reading its size, resolving its path or hashing it
\* propagates and ends the run with status 1 and no report written.
C2_UnguardedStepsAbort ==
    /\ abortCause # "metadata"
    /\ (pc = "resolve" /\ MetadataFailsFor(pdf_files[idx]))
          => metadata = Fallback(pdf_files[idx].name)
    /\ abortCause \in {"stat", "resolve", "hash"} =>
          /\ pc = "done"
          /\ exitStatus = 1
          /\ calls[Len(calls)].op = abortCause
          /\ markdown = <<>> /\ json = <<>>

C2_Witness ==
    /\ abortCause = "stat"
    /\ ~installed
    /\ Len(records) >= 1
    /\ records[1].title = stem(records[1].filename)

CallsOf(op) == {i \in 1..Len(calls) : calls[i].op = op}

SummaryLines(n) == << <<"Indexed", n, "books.">>,
                      <<"Markdown written to", MarkdownPath>>,
                      <<"JSON written to", JsonPath>> >>

\* C3: with an invalid root the run ends with the diagnostic and a non-zero
\* status, after the directory check alone: nothing is discovered, inspected
\* or hashed and no output is opened.  With a valid root and no failing
\* step the text report is written first, the export second, the three
\* summary lines are printed third, and only then the run exits with 0.
C3_RunOrder ==
    /\ (~rootValid /\ pc = "done") =>
          /\ exitStatus = 1
          /\ stdout = << <<"Invalid directory.">> >>
          /\ calls = <<call("is_dir", RootPath)>>
          /\ records = <<>> /\ markdown = <<>> /\ json = <<>>
    /\ (rootValid /\ pc = "done" /\ abortCause = "none") => exitStatus = 0
    /\ exitStatus = 0 =>
          /\ rootValid
          /\ stdout = SummaryLines(Len(records))
          /\ markdown # <<>> /\ json # <<>>
    /\ stdout # <<>> /\ rootValid => json # <<>>
    /\ json # <<>> =>
          /\ markdown # <<>>
          /\ markdown[1].generated < json[1].generated
          /\ calls[Len(calls)] = call("open_w", JsonPath)
          /\ calls[Len(calls) - 1] = call("open_w", MarkdownPath)

C3_Witness ==
    /\ pc = "done"
    /\ exitStatus = 0
    /\ Len(records) = 2
    /\ stdout = SummaryLines(2)

RECURSIVE SumOver(_, _)
SumOver(S, f) ==
    IF S = {} THEN 0
    ELSE LET x == CHOOSE y \in S : TRUE IN f[x] + SumOver(S \ {x}, f)

PagesOf(recs) == [i \in 1..Len(recs) |-> recs[i].pages]

\* C4: avg_pages is the arithmetic mean of the page counts of exactly the
\* records with a page count above 0, and 0 when there is none; total_pages
\* is the sum of all page counts.
C4_AveragePages ==
    stats # <<>> =>
       LET known == {i \in 1..Len(records) : records[i].pages > 0}
           avg   == stats[1].avg_pages
       IN  /\ avg.den > 0
           /\ known = {} => avg.num = 0
           /\ known # {} =>
                 avg.num * Cardinality(known)
                    = avg.den * SumOver(known, PagesOf(records))
           /\ stats[1].total_pages
                 = SumOver(1..Len(records), PagesOf(records))

C4_Witness ==
    /\ stats # <<>>
    /\ PagesOf(records) = <<0, 100, 300>>
    /\ stats[1].avg_pages = [num |-> 200, den |-> 1]
    /\ stats[1].total_pages = 400

\* C5: the count of the statistics is the number of records, and in the
\* export stats.count is the length of the books list.
C5_CountIsLength ==
    /\ stats # <<>> => stats[1].count = Len(records)
    /\ json # <<>> => json[1].stats.count = Len(json[1].books)

C5_Witness ==
    /\ json # <<>>
    /\ Len(json[1].books) = 3
    /\ \E i \in 1..3 : json[1].books[i].pages = 0

\* The parts of a rendered size "<integer>.<decimals> <unit>".
RenderedInteger(s) == int_value(SubSeq(s, 1, IndexIn(".", s) - 1))

RenderedDecimals(s) == SubSeq(s, IndexIn(".", s) + 1, IndexIn(" ", s) - 1)

RenderedUnit(s) == SubSeq(s, IndexIn(" ", s) + 1, Len(s))

UnitNames == Units \o <<LastUnit>>

\* The quotient of the count by 1024^k is below 1024.
QuotientBelow1024(ds, k) == Len(ds) - k <= 1

\* The number of divisions the unit stands for: the first k of 0..4 whose
\* quotient is below 1024, and 5 (PB) when there is none.
Divisions(ds) ==
    IF \E k \in 0..4 : QuotientBelow1024(ds, k)
    THEN CHOOSE k \in 0..4 :
            QuotientBelow1024(ds, k) /\ \A j \in 0..(k - 1) : ~QuotientBelow1024(ds, j)
    ELSE 5

\* s is the count ds divided Divisions(ds) times, with two decimals and the
\* unit of that many divisions.
RendersQuotient(ds, s) ==
    LET k == Divisions(ds)
        W == SubSeq(ds, 1, Len(ds) - k)
        F == drop_trailing_zeros(SubSeq(ds, Len(ds) - k + 1, Len(ds)))
        c == round_half_even(100 * digits_value(F), pow1024(Len(F)))
    IN  /\ RenderedUnit(s) = UnitNames[k + 1]
        /\ Len(RenderedDecimals(s)) = 2
        /\ int_ok(RenderedDecimals(s))
        /\ RenderedInteger(s) = digits_value(W) + (IF c = 100 THEN 1 ELSE 0)
        /\ int_value(RenderedDecimals(s)) = c % 100

SizeExamples(ds, s) ==
    /\ ds = <<0>> => s = <<"0",".","0","0"," ","B">>
    /\ ds = <<1023>> => s = <<"1","0","2","3",".","0","0"," ","B">>
    /\ ds = <<1, 0>> => s = <<"1",".","0","0"," ","K","B">>
    /\ ds = <<1, 0, 0>> => s = <<"1",".","0","0"," ","M","B">>
    /\ ds = <<1, 0, 0, 0, 0, 0>> => s = <<"1",".","0","0"," ","P","B">>

\* C6 as stated: the result is the quotient with two decimals and its unit,
\* and for every unit other than PB the rendered value is below 1024.
C6_RenderedBelow1024 ==
    sizeRet # <<>> =>
       /\ RendersQuotient(sizeArg, sizeRet[1])
       /\ SizeExamples(sizeArg, sizeRet[1])
       /\ RenderedUnit(sizeRet[1]) # LastUnit
             => RenderedInteger(sizeRet[1]) < 1024

\* C6, amended: the result is the quotient with two decimals and its unit;
\* for every unit other than PB the quotient is below 1024 before it is
\* rounded, so that the rendered value is at most 1024.00.
C6_QuotientBelow1024 ==
    sizeRet # <<>> =>
       /\ RendersQuotient(sizeArg, sizeRet[1])
       /\ SizeExamples(sizeArg, sizeRet[1])
       /\ RenderedUnit(sizeRet[1]) # LastUnit =>
             /\ QuotientBelow1024(sizeArg, Divisions(sizeArg))
             /\ \/ RenderedInteger(sizeRet[1]) < 1024
                \/ /\ RenderedInteger(sizeRet[1]) = 1024
                   /\ RenderedDecimals(sizeRet[1]) = <<"0","0">>

C6_Witness ==
    /\ sizeArg = <<1023, 1023>>
    /\ sizeRet = << <<"1","0","2","4",".","0","0"," ","K","B">> >>

Occurrences(x, seq) == Cardinality({i \in 1..Len(seq) : seq[i] = x})

TitlesOf(seq) == [i \in 1..Len(seq) |-> seq[i].title]

\* C7: the rows of the text report are the records, each once, in ascending
\* order of the lower-cased title.
C7_RowsSortedByTitle ==
    markdown # <<>> =>
       LET rows == markdown[1].rows
           made == [i \in 1..Len(records) |-> table_row(records[i])]
       IN  /\ Len(rows) = Len(records)
           /\ \A i \in 1..Len(rows) :
                 Occurrences(rows[i], rows) = Occurrences(rows[i], made)
           /\ \A i, j \in 1..Len(rows) :
                 i < j => ~str_lt(lower(rows[j].title), lower(rows[i].title))
           /\ TitlesOf(records) = << <<"Z","e","b","r","a">>,
                                     <<"a","p","p","l","e">>,
                                     <<"M","a","n","g","o">> >>
                 => TitlesOf(rows) = << <<"a","p","p","l","e">>,
                                        <<"M","a","n","g","o">>,
                                        <<"Z","e","b","r","a">> >>

C7_Witness ==
    /\ markdown # <<>>
    /\ TitlesOf(records) = << <<"Z","e","b","r","a">>,
                              <<"a","p","p","l","e">>,
                              <<"M","a","n","g","o">> >>
    /\ TitlesOf(markdown[1].rows) = << <<"a","p","p","l","e">>,
                                       <<"M","a","n","g","o">>,
                                       <<"Z","e","b","r","a">> >>

\* C8: largest_file and smallest_file name records of maximal and minimal
\* size_bytes; on the empty collection both are "N/A" and count,
\* total_pages and avg_pages are 0.
C8_Extremes ==
    stats # <<>> =>
       /\ records = <<>> =>
             /\ stats[1].largest_file = NotAvailable
             /\ stats[1].smallest_file = NotAvailable
             /\ stats[1].count = 0
             /\ stats[1].total_pages = 0
             /\ stats[1].avg_pages.num = 0
       /\ records # <<>> =>
             /\ \E i \in 1..Len(records) :
                   /\ records[i].filename = stats[1].largest_file
                   /\ \A j \in 1..Len(records) :
                         records[j].size_bytes <= records[i].size_bytes
             /\ \E i \in 1..Len(records) :
                   /\ records[i].filename = stats[1].smallest_file
                   /\ \A j \in 1..Len(records) :
                         records[j].size_bytes >= records[i].size_bytes

C8_Witness ==
    /\ stats # <<>>
    /\ Len(records) = 3
    /\ stats[1].largest_file # stats[1].smallest_file
    /\ records[1].filename # stats[1].largest_file
    /\ records[1].filename # stats[1].smallest_file

\* C9: the books of the export are the records in the order build_index
\* made them, one per matched file with its whole digest, whatever order
\* the text report listed them in, and the exported stats are the value of
\* compute_stats.
C9_ExportKeepsBuildOrder ==
    json # <<>> =>
       LET books == json[1].books
       IN  /\ markdown # <<>>
           /\ books = records
           /\ Len(books) = Len(pdf_files)
           /\ \A i \in 1..Len(books) :
                 /\ books[i].filename = pdf_files[i].name
                 /\ books[i].path = resolve(pdf_files[i])
                 /\ books[i].sha256 = sha256_hexdigest(pdf_files[i].content)
                 /\ Len(books[i].sha256) = 64
           /\ json[1].stats = stats[1]
           /\ stats[1].count = Len(pdf_files)

C9_Witness ==
    /\ json # <<>>
    /\ Len(json[1].books) = 3
    /\ TitlesOf(json[1].books) # TitlesOf(markdown[1].rows)

HexChars == {"0","1","2","3","4","5","6","7","8","9","a","b","c","d","e","f"}

EndsWithPdf(name) ==
    /\ Len(name) >= 4
    /\ name[Len(name) - 3] = "."
    /\ name[Len(name) - 2] = "p"
    /\ name[Len(name) - 1] = "d"
    /\ name[Len(name)] = "f"

BuildReturned ==
    /\ rootValid
    /\ pc \notin {"start", "rglob", "stat", "metadata", "resolve", "hash"}
    /\ abortCause \notin PerFileSteps

PathOf(file) == RootPath \o file.dir \o file.name

\* C10: when build_index returns there is exactly one record per file whose
\* name matches "*.pdf" and none for any other file; each matched file was
\* given to pdfinfo once and hashed once, and each digest is 64 hex
\* characters.  No file is ever inspected or hashed twice.
C10_OneRecordPerMatch ==
    /\ \A i \in 1..Len(tree) :
          /\ Cardinality({k \in CallsOf("pdfinfo") : calls[k].arg = PathOf(tree[i])}) <= 1
          /\ Cardinality({k \in CallsOf("hash") : calls[k].arg = PathOf(tree[i])}) <= 1
    /\ BuildReturned =>
          /\ Len(records) = Cardinality({i \in 1..Len(tree) : EndsWithPdf(tree[i].name)})
          /\ \A i \in 1..Len(tree) :
                LET p == PathOf(tree[i])
                    n == IF EndsWithPdf(tree[i].name) THEN 1 ELSE 0
                IN  /\ Cardinality({j \in 1..Len(records) : records[j].path = p}) = n
                    /\ Cardinality({k \in CallsOf("pdfinfo") : calls[k].arg = p}) = n
                    /\ Cardinality({k \in CallsOf("hash") : calls[k].arg = p}) = n
          /\ \A j \in 1..Len(records) :
                /\ Len(records[j].sha256) = 64
                /\ \A k \in 1..64 : records[j].sha256[k] \in HexChars

C10_Witness ==
    /\ pc = "stats"
    /\ Len(tree) = 5
    /\ Cardinality({i \in 1..5 : EndsWithPdf(tree[i].name)}) = 3
    /\ Len(records) = 3

====
